---- MODULE Spec2Model ----
(***************************************************************************)
(* A model of nodule.py: wrapper classes giving dotted property access to  *)
(* the nodes of a Maya scene.  The state is the type registry SPECIALTIES, *)
(* the class-level descriptor caches LOOKUPS, the set of wrapper classes   *)
(* that exist, and the part of the host scene the wrappers read and write. *)
(* `last` records the outcome of the latest call: the exception raised,    *)
(* the values returned and the host write commands issued.                 *)
(***************************************************************************)
EXTENDS Integers, Sequences, FiniteSets, TLC

VARIABLES SPECIALTIES, LOOKUPS, classes, scene, explicit, last, plugs, multi, taken

vars == <<SPECIALTIES, LOOKUPS, classes, scene, explicit, last, plugs, multi, taken>>

\* the elements of the multi-attributes in the host, the NamedMulti the caller
\* holds, and what the host held when that NamedMulti was made
multivars == <<plugs, multi, taken>>

\* ------------------------------------------------------------------ bounds

\* longest argument list given to nodules_from_list
MaxList == 2

\* ------------------------------------------------------------- host scene

\* the objects of the scene, and a name no object has
Objs == {"t1", "j1", "m1"}
Ghost == "ghost"
ObjNames == Objs \cup {Ghost}

NodeTypes == {"transform", "joint", "mesh"}

\* cmds.nodeType / the type column of cmds.ls(obj, showType=True)
NodeType(o) ==
    CASE o = "t1" -> "transform"
      [] o = "j1" -> "joint"
      [] OTHER -> "mesh"

\* the uuid of each object, and a uuid of no object
UuidOf(o) == "uuid-" \o o
Uuids == {UuidOf(o) : o \in ObjNames}

\* the one dynamic attribute a node can carry: long and short names
LongNames == {"kind", "other"}
ShortName == "kd"
EnumLabels == <<"red", "green">>
DynTypes == {"double", "enum", "mesh"}

NoAttr == [ln |-> "", type |-> "", val |-> 0]

\* the names read and assigned through the wrappers
AccessNames == {"kind", "kd", "world_scale", "local_position"}

\* values: numbers in tenths (15 is 1.5) and strings
Num(t) == [isnum |-> TRUE, n |-> t, s |-> ""]
Str(x) == [isnum |-> FALSE, n |-> 0, s |-> x]
NoVal == Str("")
WriteVals == {Num(15), Str("red"), Str("green"), Str("blue")}

\* int(val) of a python number
PyInt(v) == v.n \div 10

\* ".".join((obj, at_name))
dotted(obj, at_name) == obj \o "." \o at_name

HasAttr(sc, o, n) ==
    /\ o \in Objs
    /\ sc[o] # NoAttr
    /\ n \in {sc[o].ln, ShortName}

\* ----------------------------------------------------------- wrapper classes

StaticClasses == {"Nodule", "TransformNodule", "JointNodule"}
UserClasses == {"CameraProxy"}
AutoClass(t) == t \o "Nodule"
AllClasses == StaticClasses \cup UserClasses \cup {AutoClass(t) : t \in NodeTypes}
None == "None"

\* the base class of each wrapper class
Base(cls) ==
    CASE cls = "Nodule" -> None
      [] cls = "JointNodule" -> "TransformNodule"
      [] OTHER -> "Nodule"

\* generated classes made without a LOOKUPS of their own
OwnsLOOKUPS_static_only(cls) == cls \in {"Nodule", "TransformNodule"}

\* whether the class body defines LOOKUPS itself
OwnsLOOKUPS(cls) ==
    CASE cls = "Nodule" -> TRUE
      [] cls = "TransformNodule" -> TRUE
      [] cls = "JointNodule" -> FALSE
      [] cls \in UserClasses -> FALSE
      [] OTHER -> TRUE

\* the class whose LOOKUPS dictionary self.LOOKUPS resolves to
RECURSIVE CacheOf(_)
CacheOf(cls) == IF OwnsLOOKUPS(cls) THEN cls ELSE CacheOf(Base(cls))

\* -------------------------------------------------------------- descriptors

NoDesc == [tag |-> "none", name |-> "", type |-> "", ws |-> FALSE,
           plug |-> "", readonly |-> FALSE]

make_descriptor(at_name, at_type) ==
    [tag |-> "attr", name |-> at_name, type |-> at_type, ws |-> FALSE,
     plug |-> "", readonly |-> FALSE]

make_xform_descriptor(flag, worldspace, plug, readonly) ==
    [tag |-> "xform", name |-> flag, type |-> "MVector", ws |-> worldspace,
     plug |-> plug, readonly |-> readonly]

set_functions(at_type) ==
    CASE at_type = "bool" -> "set_bool_attr"
      [] at_type = "enum" -> "set_enum_attr"
      [] at_type = "string" -> "set_typed_attr"
      [] at_type \in {"stringArray", "doubleArray", "int32Array"} -> "set_array_attr"
      [] at_type \in {"compound", "message", "reflectanceRGB", "reflectance",
                      "spectrumRGB", "spectrum", "vectorArray", "nurbsCurve",
                      "nurbsSurface", "mesh", "lattice", "pointArray"} -> "unsupported"
      [] at_type \in {"matrix", "fltMatrix"} -> "set_matrix_attr"
      [] at_type \in {"float2", "float3", "double2", "double3", "long2", "long3",
                      "short2", "short3"} -> "set_tuple_attr"
      [] OTHER -> "set_default_attr"

get_functions(at_type) ==
    CASE at_type \in {"double3", "double3Linear", "double3Angle", "float3"} -> "vector_getter"
      [] at_type = "enum" -> "enum_getter"
      [] at_type = "matrix" -> "matrix_getter"
      [] at_type \in {"bool", "short", "byte"} -> "int_getter"
      [] at_type \in {"double2", "float2", "long2", "short2", "long3", "int32Array",
                      "doubleArray", "stringArray"} -> "tuple_getter"
      [] at_type = "string" -> "string_getter"
      [] at_type \in {"vectorArray", "nurbsCurve", "nurbsSurface", "mesh", "lattice",
                      "pointArray"} -> "unsupported_getter"
      [] OTHER -> "getter"

\* the descriptors defined in the body of each class
ClassDict(cls) ==
    CASE cls = "TransformNodule" ->
            [world_scale |-> make_xform_descriptor("scale", TRUE, "", TRUE),
             local_position |-> make_xform_descriptor("t", FALSE, "translate", FALSE)]
      [] cls = "JointNodule" ->
            [joint_orient |-> make_descriptor("scale", "double3")]
      [] cls = "Nodule" ->
            [translate |-> make_descriptor("translate", "double3Linear")]
      [] OTHER -> [n \in {} |-> NoDesc]

\* ordinary attribute lookup on the class and its bases (the path a read
\* takes before __getattr__ is tried)
RECURSIVE ClassLookup(_, _)
ClassLookup(cls, name) ==
    IF cls = None THEN NoDesc
    ELSE IF name \in DOMAIN ClassDict(cls) THEN ClassDict(cls)[name]
    ELSE ClassLookup(Base(cls), name)

\* dict.get(name), None when the key is absent
Get(dict, name) == IF name \in DOMAIN dict THEN dict[name] ELSE NoDesc

\* dict[name] = d
Put(dict, name, d) == [n \in DOMAIN dict \cup {name} |-> IF n = name THEN d ELSE dict[n]]

\* a lookup that never consults the class cache
Accessor_uncached(cls, name, lk) ==
    IF name \in DOMAIN ClassDict(cls) THEN ClassDict(cls)[name] ELSE NoDesc

\* self.__class__.__dict__.get(name, self.LOOKUPS.get(name))
Accessor(cls, name, lk) ==
    IF name \in DOMAIN ClassDict(cls) THEN ClassDict(cls)[name]
    ELSE Get(lk[CacheOf(cls)], name)

\* ------------------------------------------------------------ returned values

Value(py, attribute) ==
    [py |-> py, has_attribute |-> TRUE, attribute |-> attribute, text |-> ""]
Plain(py, text) ==
    [py |-> py, has_attribute |-> FALSE, attribute |-> "", text |-> text]

\* hasattr(item, '_attribute') ? item._attribute : str(item)
address_of(item) == IF item.has_attribute THEN item.attribute ELSE item.text

Call(cmd, target, val, type) == [cmd |-> cmd, target |-> target, val |-> val, type |-> type]

\* ------------------------------------------------------------ NamedMulti

\* the largest element index of a multi-attribute that is used
MaxIndex == 1
Indices == 0..MaxIndex

\* the multi-attributes of the node and their element types
MultiNode == "m1"
MultiAttrs == {"weights", "notes"}
MultiType(a) == IF a = "notes" THEN "string" ELSE "double"
MultiVals == {Num(15), Num(20), Str("red")}

\* a multi-attribute without elements; a dict without keys
NoItems == [i \in {} |-> NoVal]

\* "{}[{}]".format(self._attribute, index)
PlugPath(attribute, index) == attribute \o "[" \o ToString(index) \o "]"

\* cmds.setAttr(plug, val) / cmds.setAttr(plug, val, type=...) on one element:
\* the host takes a number for a double element and a typed string for a
\* string element
HostSetAttrPlug(pl, plug, val, type) ==
    LET hits == {ai \in MultiAttrs \X Indices :
                    PlugPath(dotted(MultiNode, ai[1]), ai[2]) = plug}
        ai == CHOOSE x \in hits : TRUE
        fits(a) == IF MultiType(a) = "string" THEN ~val.isnum /\ type = "string"
                   ELSE val.isnum /\ type = ""
    IN  IF hits # {} /\ fits(ai[1])
        THEN [exc |-> "none",
              plugs |-> [pl EXCEPT ![ai[1]] =
                            [i \in DOMAIN @ \cup {ai[2]} |->
                                IF i = ai[2] THEN val ELSE @[i]]]]
        ELSE [exc |-> "HostError", plugs |-> pl]

\* NamedMulti.__init__: self.update(arg), self._attribute, self._type
NamedMulti(arg, attribute, type) == [attribute |-> attribute, type |-> type, items |-> arg]

\* the caller holds no NamedMulti
NoMulti == NamedMulti(NoItems, "", None)

\* NamedMulti.__getitem__
NamedMulti_getitem(m, index) ==
    IF index \notin DOMAIN m.items
    THEN [exc |-> "UnsetIndexError", ret |-> <<>>]
    ELSE [exc |-> "none", ret |-> <<m.items[index]>>]

\* a __setitem__ that also stores the value in the dict
NamedMulti_setitem_storing(m, index, val, pl) ==
    LET plug == PlugPath(m.attribute, index)
        type == IF m.type # None THEN m.type ELSE ""
        h == HostSetAttrPlug(pl, plug, val, type)
    IN  [exc |-> h.exc, calls |-> <<Call("setAttr", plug, val, type)>>,
         plugs |-> h.plugs,
         m |-> [m EXCEPT !.items = [i \in DOMAIN @ \cup {index} |->
                                        IF i = index THEN val ELSE @[i]]]]

\* NamedMulti.__setitem__
NamedMulti_setitem(m, index, val, pl) ==
    LET plug == PlugPath(m.attribute, index)
        type == IF m.type # None THEN m.type ELSE ""
        h == HostSetAttrPlug(pl, plug, val, type)
    IN  [exc |-> h.exc, calls |-> <<Call("setAttr", plug, val, type)>>,
         plugs |-> h.plugs, m |-> m]

\* NamedMulti.__delitem__
NamedMulti_delitem(m, index) == [exc |-> "NotImplementedError"]

\* the multi branches of getter and string_getter: the indices and values
\* the host holds, wrapped in a NamedMulti; for a multi without elements the
\* host gives getter None instead of a list
multi_get(obj, at_name, pl) ==
    IF get_functions(MultiType(at_name)) = "string_getter"
    THEN [exc |-> "none", ret |-> <<NamedMulti(pl[at_name], dotted(obj, at_name), "string")>>]
    ELSE IF DOMAIN pl[at_name] = {}
    THEN [exc |-> "TypeError", ret |-> <<>>]
    ELSE [exc |-> "none", ret |-> <<NamedMulti(pl[at_name], dotted(obj, at_name), None)>>]

\* --------------------------------------------------------- the host commands

\* cmds.ls(obj, showType=True): the object and its node type, or nothing
HostLs(o) == IF o \in Objs THEN <<o, NodeType(o)>> ELSE <<>>

\* the attributes every transform node has
StaticAttr(o, n) ==
    /\ o \in Objs
    /\ NodeType(o) \in {"transform", "joint"}
    /\ n \in {"translate", "scale"}

\* cmds.ls("obj.attr", showType=True): the node, the attribute's long name
\* (what canonical.split(".")[-1] keeps) and its type; nothing when absent
HostLsAttr(sc, o, n) ==
    IF HasAttr(sc, o, n) THEN <<[node |-> o, attr |-> sc[o].ln, type |-> sc[o].type]>>
    ELSE IF StaticAttr(o, n) THEN <<[node |-> o, attr |-> n, type |-> "double3"]>>
    ELSE <<>>

\* whether cmds.xform accepts the node
IsTransform(o) == o \in Objs /\ NodeType(o) \in {"transform", "joint"}

\* cmds.setAttr("obj.attr", val): the scene afterwards, or the host's refusal
HostSetAttr(sc, o, n, v) ==
    IF ~HasAttr(sc, o, n) THEN [exc |-> "HostError", scene |-> sc]
    ELSE IF ~v.isnum \/ sc[o].type = "mesh" THEN [exc |-> "HostError", scene |-> sc]
    ELSE IF sc[o].type = "enum"
         THEN IF v.n % 10 = 0 /\ v.n \div 10 \in 0..(Len(EnumLabels) - 1)
              THEN [exc |-> "none", scene |-> [sc EXCEPT ![o].val = v.n \div 10]]
              ELSE [exc |-> "HostError", scene |-> sc]
    ELSE [exc |-> "none", scene |-> sc]

\* the first i-th or later element of seq equal to x, 0 when there is none
RECURSIVE IndexFrom(_, _, _)
IndexFrom(seq, x, i) ==
    IF i > Len(seq) THEN 0
    ELSE IF seq[i] = x THEN i
    ELSE IndexFrom(seq, x, i + 1)

\* enums.index(val): the 0-based position of val, -1 for the ValueError
enums_index(enums, val) == IndexFrom(enums, val, 1) - 1

\* ------------------------------------------------- descriptor __get__/__set__

\* AnonymousDescriptor.__get__ / XformDescriptor.__get__
desc_get(d, obj, sc) ==
    LET fn == get_functions(d.type)
        at == dotted(obj, d.name)
        ok(v) == [exc |-> "none", ret |-> <<v>>]
        raise(e) == [exc |-> e, ret |-> <<>>]
    IN  IF d.tag = "xform"
        THEN IF IsTransform(obj) THEN ok(Value("NamedVector", dotted(obj, d.plug)))
             ELSE raise("HostError")
        ELSE IF fn = "unsupported_getter" THEN ok(Value("NamedUnsupported", at))
        ELSE IF StaticAttr(obj, d.name) /\ ~HasAttr(sc, obj, d.name)
        THEN CASE fn = "vector_getter" -> ok(Value("NamedVector", at))
               [] fn = "enum_getter" -> ok(Plain("list", "[(0.0, 0.0, 0.0)]"))
               [] fn = "getter" -> raise("AttributeTypeError")
               [] OTHER -> raise("TypeError")
        ELSE IF ~HasAttr(sc, obj, d.name) THEN raise("HostError")
        ELSE CASE fn = "getter" ->
                    IF sc[obj].type \in {"double", "enum"}
                    THEN ok(Value("NamedNumber", at))
                    ELSE raise("AttributeTypeError")
               [] fn = "enum_getter" ->
                    CASE sc[obj].type = "enum" ->
                            ok(Plain("unicode", EnumLabels[sc[obj].val + 1]))
                      [] sc[obj].type = "double" -> ok(Plain("float", "0.0"))
                      [] OTHER -> ok(Plain("NoneType", "None"))
               [] OTHER -> raise("TypeError")

\* AnonymousDescriptor.__set__ / XformDescriptor.__set__
desc_set(d, obj, val, sc) ==
    LET fn == set_functions(d.type)
        at == dotted(obj, d.name)
        raise(e) == [exc |-> e, calls |-> <<>>, scene |-> sc]
        setAttr(v, type) ==
            LET h == HostSetAttr(sc, obj, d.name, v)
            IN  [exc |-> h.exc, calls |-> <<Call("setAttr", at, v, type)>>,
                 scene |-> h.scene]
    IN  IF d.tag = "xform"
        THEN IF d.readonly THEN raise("ReadOnlyPropertyError")
             ELSE [exc |-> IF IsTransform(obj) THEN "none" ELSE "HostError",
                   calls |-> <<Call("xform", obj, val, d.name)>>, scene |-> sc]
        ELSE CASE fn = "unsupported" -> raise("ReadOnlyPropertyError")
               [] fn = "set_enum_attr" ->
                    IF val.isnum THEN setAttr(Num(10 * PyInt(val)), "")
                    ELSE IF ~HasAttr(sc, obj, d.name) THEN raise("HostError")
                    ELSE IF sc[obj].type # "enum" THEN raise("TypeError")
                    ELSE IF enums_index(EnumLabels, val.s) < 0
                         THEN raise("InvalidEnumError")
                         ELSE setAttr(Num(10 * enums_index(EnumLabels, val.s)), "")
               [] fn = "set_default_attr" -> setAttr(val, "")
               [] OTHER -> setAttr(val, d.type)

\* ------------------------------------------------------------ Nodule methods

\* Nodule._cache_attribute
cache_attribute(cls, obj, at_name, lk, sc) ==
    LET found == HostLsAttr(sc, obj, at_name)
    IN  IF found = <<>>
        THEN [exc |-> "NoMayaAttributeError", lk |-> lk]
        ELSE LET canonical == found[1].attr
                 d == make_descriptor(at_name, found[1].type)
             IN  [exc |-> "none",
                  lk |-> [lk EXCEPT ![CacheOf(cls)] =
                             Put(Put(@, at_name, d), canonical, d)]]

\* reading self.name: class attributes first, then Nodule.__getattr__
py_getattr(cls, obj, name, lk, sc) ==
    LET found == ClassLookup(cls, name)
        accessor == IF found # NoDesc THEN found ELSE Accessor(cls, name, lk)
        cached == cache_attribute(cls, obj, name, lk, sc)
    IN  IF accessor # NoDesc
        THEN LET g == desc_get(accessor, obj, sc)
             IN  [exc |-> g.exc, ret |-> g.ret, lk |-> lk, queried |-> FALSE,
                  hit |-> found = NoDesc, desc |-> accessor]
        ELSE IF cached.exc # "none"
        THEN [exc |-> cached.exc, ret |-> <<>>, lk |-> lk, queried |-> TRUE,
              hit |-> FALSE, desc |-> NoDesc]
        ELSE LET d == Get(cached.lk[CacheOf(cls)], name)
                 g == desc_get(d, obj, sc)
             IN  [exc |-> g.exc, ret |-> g.ret, lk |-> cached.lk, queried |-> TRUE,
                  hit |-> FALSE, desc |-> d]

\* Nodule.__setattr__
py_setattr(cls, obj, name, val, lk, sc) ==
    LET accessor == Accessor(cls, name, lk)
        cached == cache_attribute(cls, obj, name, lk, sc)
    IN  IF accessor # NoDesc
        THEN LET w == desc_set(accessor, obj, val, sc)
             IN  [exc |-> w.exc, calls |-> w.calls, scene |-> w.scene, lk |-> lk,
                  queried |-> FALSE, hit |-> name \notin DOMAIN ClassDict(cls),
                  desc |-> accessor]
        ELSE IF cached.exc # "none"
        THEN [exc |-> cached.exc, calls |-> <<>>, scene |-> sc, lk |-> lk,
              queried |-> TRUE, hit |-> FALSE, desc |-> NoDesc]
        ELSE LET d == Get(cached.lk[CacheOf(cls)], name)
                 w == desc_set(d, obj, val, sc)
             IN  [exc |-> w.exc, calls |-> w.calls, scene |-> w.scene,
                  lk |-> cached.lk, queried |-> TRUE, hit |-> FALSE, desc |-> d]

\* cmds.addAttr(node, **kwargs): the scene afterwards, or the host's refusal
HostAddAttr(sc, o, kwargs) ==
    IF o \notin Objs \/ sc[o] # NoAttr
       \/ ({"ln", "longName"} \subseteq DOMAIN kwargs)
    THEN [exc |-> "HostError", scene |-> sc]
    ELSE [exc |-> "none",
          scene |-> [sc EXCEPT ![o] =
                        [ln |-> IF "ln" \in DOMAIN kwargs THEN kwargs.ln
                                ELSE kwargs.longName,
                         type |-> IF "at" \in DOMAIN kwargs THEN kwargs.at
                                  ELSE kwargs.dt,
                         val |-> 0]]]

\* Nodule.add_attribute
add_attribute(cls, obj, name, kwargs, lk, sc) ==
    LET named == [k \in DOMAIN kwargs \cup {"ln"} |->
                     IF k = "ln" THEN name ELSE kwargs[k]]
        passed == [k \in DOMAIN named \ {"longName"} |-> named[k]]
        h == HostAddAttr(sc, obj, passed)
        \* self.get_named_attr: no such method, so the name goes to __getattr__
        r == py_getattr(cls, obj, "get_named_attr", lk, h.scene)
    IN  IF h.exc # "none"
        THEN [exc |-> h.exc, calls |-> <<Call("addAttr", obj, Str(name), "")>>,
              scene |-> sc, lk |-> lk]
        ELSE [exc |-> IF r.exc = "none" THEN "TypeError" ELSE r.exc,
              calls |-> <<Call("addAttr", obj, Str(name), "")>>,
              scene |-> h.scene, lk |-> r.lk]

\* Nodule.delete_attribute: ".".join(self, name) takes one argument only
delete_attribute(cls, obj, name, sc) ==
    [exc |-> "TypeError", calls |-> <<>>, scene |-> sc]

\* ------------------------------------------------------------------ factory

\* a wrapper instance: a python str of class cls whose text is the node name
Wrapper(cls, obj) == Plain(cls, obj)

\* a registration that keeps the class a type already has
register_if_absent(reg, type_string, proxy_class) ==
    IF reg[type_string] = None THEN [reg EXCEPT ![type_string] = proxy_class] ELSE reg

\* SPECIALTIES[type_string] = proxy_class
register_nodule_class(reg, type_string, proxy_class) ==
    [reg EXCEPT ![type_string] = proxy_class]

\* nodule(obj, typed)
nodule(obj, typed, reg) ==
    LET found == HostLs(obj)
    IN  IF found = <<>>
        THEN IF typed
             THEN [exc |-> "NoMayaObjectError", ret |-> <<>>, reg |-> reg, made |-> {}]
             ELSE [exc |-> "none", ret |-> <<Wrapper("Nodule", obj)>>, reg |-> reg,
                   made |-> {}]
        ELSE LET nodetype == found[2]
                 wrapper == reg[nodetype]
             IN  IF wrapper = None
                 THEN [exc |-> "none",
                       ret |-> <<Wrapper(AutoClass(nodetype), found[1])>>,
                       reg |-> register_nodule_class(reg, nodetype, AutoClass(nodetype)),
                       made |-> {AutoClass(nodetype)}]
                 ELSE [exc |-> "none", ret |-> <<Wrapper(wrapper, found[1])>>,
                       reg |-> reg, made |-> {}]

\* cmds.ls(uuid): the names of the objects with that uuid
HostLsUuid(uuid) == IF \E o \in Objs : UuidOf(o) = uuid
                    THEN <<CHOOSE o \in Objs : UuidOf(o) = uuid>>
                    ELSE <<>>

\* nodule_from_uuid(uuid)
nodule_from_uuid(uuid, reg) ==
    LET target == HostLsUuid(uuid)
    IN  IF target # <<>> THEN nodule(target[1], TRUE, reg)
        ELSE [exc |-> "NoMayaObjectError", ret |-> <<>>, reg |-> reg, made |-> {}]

\* SPECIALTIES.get(each_type, Nodule)(each_obj)
from_list_wrapper(reg, each_obj, each_type) ==
    Wrapper(IF reg[each_type] = None THEN "Nodule" ELSE reg[each_type], each_obj)

\* nodules_from_list(iterable): cmds.ls lists the objects that exist
RECURSIVE nodules_from_list(_, _)
nodules_from_list(iterable, reg) ==
    IF iterable = <<>> THEN <<>>
    ELSE LET found == HostLs(Head(iterable))
             rest == nodules_from_list(Tail(iterable), reg)
         IN  IF found = <<>> THEN rest
             ELSE <<from_list_wrapper(reg, found[1], found[2])>> \o rest

\* the wrapper instances a caller can hold: what the factory functions hand
\* out, Nodule(obj) for a missing object, TransformNodule(t) for child joints
Wrappers ==
    {w \in AllClasses \X ObjNames :
        /\ w[1] \in classes
        /\ \/ w[1] = "Nodule" /\ w[2] \in {"m1", Ghost}
           \/ w[1] = "TransformNodule" /\ IsTransform(w[2])
           \/ w[1] = "JointNodule" /\ w[2] = "j1"
           \/ w[2] \in Objs /\ w[1] \notin StaticClasses
                /\ (SPECIALTIES[NodeType(w[2])] = w[1] \/ w[1] = AutoClass(NodeType(w[2])))}

\* ------------------------------------------------------------------- state

\* LOOKUPS = {}
EmptyCache == [n \in {} |-> NoDesc]

Idle == [op |-> "idle", cls |-> None, obj |-> "", name |-> "", val |-> NoVal,
         typed |-> TRUE, args |-> <<>>, exc |-> "none", ret |-> <<>>, calls |-> <<>>,
         queried |-> FALSE, hit |-> FALSE, desc |-> NoDesc]

Init ==
    /\ SPECIALTIES = [t \in NodeTypes |->
                        CASE t = "transform" -> "TransformNodule"
                          [] t = "joint" -> "JointNodule"
                          [] OTHER -> None]
    /\ LOOKUPS = [c \in {k \in StaticClasses : OwnsLOOKUPS(k)} |-> EmptyCache]
    /\ classes = StaticClasses \cup UserClasses
    /\ scene = [o \in Objs |-> NoAttr]
    /\ explicit = [t \in NodeTypes |-> None]
    /\ last = Idle
    /\ plugs = [a \in MultiAttrs |-> NoItems]
    /\ multi = NoMulti
    /\ taken = [attr |-> "", items |-> NoItems]

\* ----------------------------------------------------------------- actions

\* the caller is between two calls
Ready == last.op = "idle"

\* a caller registers its own wrapper class for a node type
Register(t, c) ==
    /\ Ready
    /\ SPECIALTIES' = register_nodule_class(SPECIALTIES, t, c)
    /\ explicit' = [explicit EXCEPT ![t] = c]
    /\ last' = [Idle EXCEPT !.op = "register_nodule_class", !.cls = c, !.name = t]
    /\ UNCHANGED <<LOOKUPS, classes, scene>>

\* the effect of a factory result r on the registry and the classes
Made(r) ==
    /\ Ready
    /\ SPECIALTIES' = r.reg
    /\ classes' = classes \cup r.made
    /\ LOOKUPS' = [c \in DOMAIN LOOKUPS \cup {m \in r.made : OwnsLOOKUPS(m)} |->
                        IF c \in r.made THEN EmptyCache ELSE LOOKUPS[c]]

NoduleCall(obj, typed) ==
    LET r == nodule(obj, typed, SPECIALTIES)
    IN  /\ Made(r)
        /\ last' = [Idle EXCEPT !.op = "nodule", !.obj = obj, !.args = <<obj>>,
                                 !.exc = r.exc, !.ret = r.ret, !.typed = typed]
        /\ UNCHANGED <<scene, explicit>>

NoduleFromUuid(uuid) ==
    LET r == nodule_from_uuid(uuid, SPECIALTIES)
    IN  /\ Made(r)
        /\ last' = [Idle EXCEPT !.op = "nodule_from_uuid", !.name = uuid,
                                 !.exc = r.exc, !.ret = r.ret]
        /\ UNCHANGED <<scene, explicit>>

NodulesFromList(iterable) ==
    /\ Ready
    /\ last' = [Idle EXCEPT !.op = "nodules_from_list", !.args = iterable,
                             !.ret = nodules_from_list(iterable, SPECIALTIES)]
    /\ UNCHANGED <<SPECIALTIES, LOOKUPS, classes, scene, explicit>>

\* reading node.name
GetAttr(cls, obj, name) ==
    LET r == py_getattr(cls, obj, name, LOOKUPS, scene)
    IN  /\ Ready
        /\ LOOKUPS' = r.lk
        /\ last' = [Idle EXCEPT !.op = "getattr", !.cls = cls, !.obj = obj,
                                 !.name = name, !.exc = r.exc, !.ret = r.ret,
                                 !.queried = r.queried, !.hit = r.hit, !.desc = r.desc]
        /\ UNCHANGED <<SPECIALTIES, classes, scene, explicit>>

\* assigning node.name = val
SetAttr(cls, obj, name, val) ==
    LET r == py_setattr(cls, obj, name, val, LOOKUPS, scene)
    IN  /\ Ready
        /\ LOOKUPS' = r.lk
        /\ scene' = r.scene
        /\ last' = [Idle EXCEPT !.op = "setattr", !.cls = cls, !.obj = obj,
                                 !.name = name, !.val = val, !.exc = r.exc,
                                 !.calls = r.calls, !.queried = r.queried,
                                 !.hit = r.hit, !.desc = r.desc]
        /\ UNCHANGED <<SPECIALTIES, classes, explicit>>

\* the keyword arguments callers give to add_attribute
AddKwargs ==
    {[at |-> t, sn |-> ShortName] : t \in DynTypes \ {"mesh"}}
        \cup {[dt |-> "mesh", sn |-> ShortName]}
        \cup {[at |-> "enum", sn |-> ShortName, longName |-> "other"]}

AddAttribute(cls, obj, name, kwargs) ==
    LET r == add_attribute(cls, obj, name, kwargs, LOOKUPS, scene)
    IN  /\ Ready
        /\ LOOKUPS' = r.lk
        /\ scene' = r.scene
        /\ last' = [Idle EXCEPT !.op = "add_attribute", !.cls = cls, !.obj = obj,
                                 !.name = name, !.exc = r.exc, !.calls = r.calls,
                                 !.hit = "longName" \in DOMAIN kwargs]
        /\ UNCHANGED <<SPECIALTIES, classes, explicit>>

DeleteAttribute(cls, obj, name) ==
    LET r == delete_attribute(cls, obj, name, scene)
    IN  /\ Ready
        /\ scene' = r.scene
        /\ last' = [Idle EXCEPT !.op = "delete_attribute", !.cls = cls, !.obj = obj,
                                 !.name = name, !.exc = r.exc, !.calls = r.calls]
        /\ UNCHANGED <<SPECIALTIES, LOOKUPS, classes, explicit>>

\* the scene is edited through maya.cmds directly: an attribute is deleted
HostDeleteAttr(obj) ==
    /\ Ready
    /\ scene[obj] # NoAttr
    /\ scene' = [scene EXCEPT ![obj] = NoAttr]
    /\ UNCHANGED <<SPECIALTIES, LOOKUPS, classes, explicit, last>>

\* address_of(item) on the value the last read returned
AddressOfRead ==
    /\ last.op = "getattr"
    /\ last.exc = "none"
    /\ last' = [last EXCEPT !.op = "address_of", !.args = <<address_of(last.ret[1])>>]
    /\ UNCHANGED <<SPECIALTIES, LOOKUPS, classes, scene, explicit>>

\* address_of(item) on a plain string
AddressOfString(str) ==
    /\ Ready
    /\ last' = [Idle EXCEPT !.op = "address_of", !.ret = <<Plain("str", str)>>,
                             !.args = <<address_of(Plain("str", str))>>]
    /\ UNCHANGED <<SPECIALTIES, LOOKUPS, classes, scene, explicit>>

\* the call returns to the caller, who may make the next one
Return ==
    /\ ~Ready
    /\ last' = Idle
    /\ UNCHANGED <<SPECIALTIES, LOOKUPS, classes, scene, explicit>>
    /\ UNCHANGED multivars

Lists == UNION {[1..n -> ObjNames] : n \in 1..MaxList}

\* the nodes callers add attributes to, with the keyword arguments they give
AddInputs ==
    {<<o, k>> \in ObjNames \X AddKwargs :
        \/ o \in {"t1", Ghost}
        \/ o = "m1" /\ k = [at |-> "double", sn |-> ShortName]}

\* the calls a caller makes on wrappers and on the scene
AttrCall ==
    \/ \E o \in ObjNames, typed \in BOOLEAN : NoduleCall(o, typed)
    \/ \E l \in Lists : NodulesFromList(l)
    \/ \E w \in Wrappers, n \in AccessNames : GetAttr(w[1], w[2], n)
    \/ \E w \in Wrappers, n \in AccessNames, v \in WriteVals : SetAttr(w[1], w[2], n, v)
    \/ \E w \in Wrappers, i \in AddInputs :
            w[2] = i[1] /\ AddAttribute(w[1], w[2], "kind", i[2])
    \/ \E w \in Wrappers : DeleteAttribute(w[1], w[2], "kind")
    \/ \E o \in Objs : HostDeleteAttr(o)
    \/ AddressOfString("t1.kind")

AttrNext ==
    \/ Ready /\ AttrCall /\ UNCHANGED multivars
    \/ AddressOfRead /\ UNCHANGED multivars
    \/ Return

Spec == Init /\ [][AttrNext]_vars

\* the calls a caller makes on the factory functions and the registry
FactoryCall ==
    \/ \E t \in NodeTypes, c \in UserClasses : Register(t, c)
    \/ \E o \in ObjNames, typed \in BOOLEAN : NoduleCall(o, typed)
    \/ \E u \in Uuids : NoduleFromUuid(u)
    \/ \E l \in Lists : NodulesFromList(l)

FactoryNext ==
    \/ Ready /\ FactoryCall /\ UNCHANGED multivars
    \/ Return

SpecFactory == Init /\ [][FactoryNext]_vars

\* reading a multi-attribute of the node: the caller keeps the NamedMulti
ReadMulti(obj, at_name) ==
    LET r == multi_get(obj, at_name, plugs)
    IN  /\ multi' = IF r.exc = "none" THEN r.ret[1] ELSE multi
        /\ taken' = IF r.exc = "none" THEN [attr |-> at_name, items |-> plugs[at_name]]
                     ELSE taken
        /\ last' = [Idle EXCEPT !.op = "read_multi", !.obj = obj, !.name = at_name,
                                 !.exc = r.exc]
        /\ UNCHANGED <<SPECIALTIES, LOOKUPS, classes, scene, explicit, plugs>>

\* m[index]
GetItem(index) ==
    LET r == NamedMulti_getitem(multi, index)
    IN  /\ multi # NoMulti
        /\ last' = [Idle EXCEPT !.op = "getitem", !.args = <<index>>, !.exc = r.exc,
                                 !.ret = r.ret]
        /\ UNCHANGED <<SPECIALTIES, LOOKUPS, classes, scene, explicit>>
        /\ UNCHANGED multivars

\* m[index] = val
SetItem(index, val) ==
    LET r == NamedMulti_setitem(multi, index, val, plugs)
    IN  /\ multi # NoMulti
        /\ multi' = r.m
        /\ plugs' = r.plugs
        /\ last' = [Idle EXCEPT !.op = "setitem", !.args = <<index>>, !.val = val,
                                 !.exc = r.exc, !.calls = r.calls]
        /\ UNCHANGED <<SPECIALTIES, LOOKUPS, classes, scene, explicit, taken>>

\* del m[index]
DelItem(index) ==
    LET r == NamedMulti_delitem(multi, index)
    IN  /\ multi # NoMulti
        /\ last' = [Idle EXCEPT !.op = "delitem", !.args = <<index>>, !.exc = r.exc]
        /\ UNCHANGED <<SPECIALTIES, LOOKUPS, classes, scene, explicit>>
        /\ UNCHANGED multivars

\* an element is set in the host, outside the wrappers
HostSetPlug(at_name, index, val) ==
    LET h == HostSetAttrPlug(plugs, PlugPath(dotted(MultiNode, at_name), index), val,
                             IF MultiType(at_name) = "string" THEN "string" ELSE "")
    IN  /\ h.exc = "none"
        /\ plugs' = h.plugs
        /\ UNCHANGED <<SPECIALTIES, LOOKUPS, classes, scene, explicit, last, multi, taken>>

\* the calls a caller makes on a multi-attribute and its NamedMulti
MultiCall ==
    \/ \E a \in MultiAttrs : ReadMulti(MultiNode, a)
    \/ \E i \in Indices : GetItem(i)
    \/ \E i \in Indices, v \in MultiVals : SetItem(i, v)
    \/ \E i \in Indices : DelItem(i)
    \/ \E a \in MultiAttrs, i \in Indices, v \in MultiVals : HostSetPlug(a, i, v)

MultiNext ==
    \/ Ready /\ MultiCall
    \/ Return

SpecMulti == Init /\ [][MultiNext]_vars

\* ------------------------------------------------------------------- claims

FactoryOps == {"nodule", "nodule_from_uuid", "nodules_from_list"}
AccessOps == {"getattr", "setattr"}

\* the class last registered for the node type of o by register_nodule_class
Registered(o) == explicit[NodeType(o)]

\* C1: once register_nodule_class(t, C) was called, nodule(), nodule_from_uuid()
\* and nodules_from_list() return an instance of C for every existing object
\* of node type t, whatever was called before the registration.
C1_RegisteredClassReturned ==
    /\ (last.op = "nodule" /\ last.obj \in Objs /\ Registered(last.obj) # None)
            => last.exc = "none"
               /\ last.ret = <<Wrapper(Registered(last.obj), last.obj)>>
    /\ \A o \in Objs :
            (last.op = "nodule_from_uuid" /\ last.name = UuidOf(o) /\ Registered(o) # None)
                => last.exc = "none" /\ last.ret = <<Wrapper(Registered(o), o)>>
    /\ last.op = "nodules_from_list"
            => /\ \A i \in 1..Len(last.args) :
                    (last.args[i] \in Objs /\ Registered(last.args[i]) # None)
                        => \E j \in 1..Len(last.ret) :
                              last.ret[j] = Wrapper(Registered(last.args[i]), last.args[i])
               /\ \A j \in 1..Len(last.ret) :
                    Registered(last.ret[j].text) # None
                        => last.ret[j].py = Registered(last.ret[j].text)

\* a mesh whose type first got the generated class, then a registered one
C1_Witness ==
    /\ last.op \in FactoryOps
    /\ AutoClass("mesh") \in classes
    /\ explicit["mesh"] = "CameraProxy"
    /\ last.ret = <<Wrapper("CameraProxy", "m1")>>

\* nodule() called on each object of the list in turn
RECURSIVE NoduleEach(_, _)
NoduleEach(objs, reg) ==
    IF objs = <<>> THEN [ret |-> <<>>, reg |-> reg]
    ELSE LET one == nodule(Head(objs), TRUE, reg)
             rest == NoduleEach(Tail(objs), one.reg)
         IN  [ret |-> one.ret \o rest.ret, reg |-> rest.reg]

\* C2: nodules_from_list(objs) gives, for existing objects, wrappers of the
\* classes nodule() gives one at a time, and leaves the registry as they do.
C2_ListSameAsNoduleEach ==
    [][(last'.op = "nodules_from_list" /\ \A i \in 1..Len(last'.args) : last'.args[i] \in Objs)
          => /\ last'.ret = NoduleEach(last'.args, SPECIALTIES).ret
             /\ SPECIALTIES' = NoduleEach(last'.args, SPECIALTIES).reg]_vars

\* C3: every wrapper class keeps its own descriptor cache: an access through
\* an instance of one class changes what is cached for that class only,
\* never what another wrapper class sees in its cache.
C3_CachePerClass ==
    [][last'.op \in AccessOps /\ last.op = "idle"
          => \A c \in classes \ {last'.cls} :
                LOOKUPS'[CacheOf(c)] = LOOKUPS[CacheOf(c)]]_vars

\* the names of the host attribute that name denotes on node o
AliasesOf(sc, o, name) == IF HasAttr(sc, o, name) THEN {sc[o].ln, ShortName} ELSE {name}

\* the names cached for wrapper class c
CachedNames(lk, c) == DOMAIN lk[CacheOf(c)]

\* a cached name keeps being cached
CacheGrows ==
    \A c \in DOMAIN LOOKUPS : DOMAIN LOOKUPS[c] \subseteq DOMAIN LOOKUPS'[c]

\* an access of a cached name uses the cached descriptor, asks the host for no
\* type and leaves the caches alone
CacheReused ==
    (last.op = "idle" /\ last'.op \in AccessOps
        /\ last'.name \in CachedNames(LOOKUPS, last'.cls))
        => /\ ~last'.queried
           /\ last'.desc = LOOKUPS[CacheOf(last'.cls)][last'.name]
           /\ LOOKUPS' = LOOKUPS

MissingAccess ==
    /\ last.op = "idle"
    /\ last'.op \in AccessOps
    /\ ClassLookup(last'.cls, last'.name) = NoDesc
    /\ ~HasAttr(scene, last'.obj, last'.name)

RaisesNoMayaAttribute ==
    /\ last'.exc = "NoMayaAttributeError"
    /\ LOOKUPS' = LOOKUPS
    /\ last'.calls = <<>>
    /\ scene' = scene

\* C5: reading or assigning a name the host node does not have raises
\* NoMayaAttributeError, caches nothing and writes nothing, whatever was
\* accessed before on other nodes of the class.
C5_MissingAttributeRaises ==
    [][MissingAccess => RaisesNoMayaAttribute]_vars

\* C6: nodule(obj, typed) on a missing object raises NoMayaObjectError when
\* typed and returns Nodule(obj) when not, the registry unchanged; on an
\* object of an unregistered type it creates the '<type>Nodule' class with
\* an empty cache of its own, registers it and returns an instance of it.
C6_NoduleMissingOrUnregistered ==
    [][(last.op = "idle" /\ last'.op = "nodule")
          => LET obj == last'.obj
                 c == AutoClass(NodeType(obj))
             IN  /\ (obj \notin Objs /\ last'.typed)
                        => /\ last'.exc = "NoMayaObjectError" /\ last'.ret = <<>>
                           /\ UNCHANGED <<SPECIALTIES, classes, LOOKUPS>>
                 /\ (obj \notin Objs /\ ~last'.typed)
                        => /\ last'.exc = "none"
                           /\ last'.ret = <<Wrapper("Nodule", obj)>>
                           /\ UNCHANGED <<SPECIALTIES, classes, LOOKUPS>>
                 /\ (obj \in Objs /\ SPECIALTIES[NodeType(obj)] = None)
                        => /\ last'.exc = "none"
                           /\ last'.ret = <<Wrapper(c, obj)>>
                           /\ c \notin classes /\ classes' = classes \cup {c}
                           /\ SPECIALTIES' = [SPECIALTIES EXCEPT ![NodeType(obj)] = c]
                           /\ CacheOf(c) = c
                           /\ c \notin DOMAIN LOOKUPS
                           /\ LOOKUPS'[c] = EmptyCache
                           /\ \A k \in DOMAIN LOOKUPS : LOOKUPS'[k] = LOOKUPS[k]]_vars

\* the class is generated while the cache of Nodule holds an entry
C6_Witness ==
    /\ last.op = "nodule"
    /\ last.ret = <<Wrapper(AutoClass("mesh"), "m1")>>
    /\ DOMAIN LOOKUPS["Nodule"] # {}
    /\ LOOKUPS[AutoClass("mesh")] = EmptyCache

\* C7: address_of gives the address 'n.a' of the attribute a value was read
\* from, for every getter of the dispatch table, and a plain string unchanged.
C7_AddressOfReadValue ==
    /\ (last.op = "address_of" /\ last.cls # None /\ last.desc.tag = "attr")
            => last.args[1] \in {dotted(last.obj, n) :
                                    n \in AliasesOf(scene, last.obj, last.name)}
    /\ (last.op = "address_of" /\ last.cls = None)
            => last.args[1] = last.ret[1].text

\* the attribute types of the two dispatch tables
TypeTags ==
    {"bool", "enum", "string", "stringArray", "compound", "message", "matrix",
     "fltMatrix", "reflectanceRGB", "reflectance", "spectrumRGB", "spectrum",
     "float2", "float3", "double2", "double3", "long2", "long3", "short2", "short3",
     "doubleArray", "int32Array", "vectorArray", "nurbsCurve", "nurbsSurface", "mesh",
     "lattice", "pointArray", "double3Linear", "double3Angle", "short", "byte",
     "double", "long"}

\* the assignment targets the claim calls read-only
ReadOnlyTarget(cls, obj, name) ==
    \/ ClassLookup(cls, name).tag = "xform" /\ ClassLookup(cls, name).readonly
    \/ /\ ClassLookup(cls, name) = NoDesc
       /\ HasAttr(scene, obj, name)
       /\ set_functions(scene[obj].type) = "unsupported"

\* C8: assigning to a read-only property (an attribute of a type the setter
\* table maps to unsupported, or world_scale) raises ReadOnlyPropertyError and
\* issues no host write; a type read by the unsupported getter is set by the
\* unsupported setter.
C8_ReadOnlyAssignRaises ==
    /\ (last.op = "setattr" /\ ReadOnlyTarget(last.cls, last.obj, last.name))
            => last.exc = "ReadOnlyPropertyError" /\ last.calls = <<>>
    /\ \A t \in TypeTags :
            get_functions(t) = "unsupported_getter" => set_functions(t) = "unsupported"

EnumAttr(sc, o, n) == HasAttr(sc, o, n) /\ sc[o].type = "enum"

\* the label the host shows for the value of the enum attribute of node o
LabelOf(sc, o) == EnumLabels[sc[o].val + 1]

\* what the claim says of an assignment of last'.val to enum attribute of obj
EnumAssigned ==
    LET obj == last'.obj
        v == last'.val
    IN  /\ v.isnum => /\ last'.exc = "none"
                       /\ 10 * scene'[obj].val <= v.n
                       /\ v.n < 10 * scene'[obj].val + 10
        /\ (~v.isnum /\ \E i \in 1..Len(EnumLabels) : EnumLabels[i] = v.s)
                => /\ last'.exc = "none"
                   /\ EnumLabels[scene'[obj].val + 1] = v.s
                   /\ \A j \in 1..scene'[obj].val : EnumLabels[j] # v.s
        /\ (~v.isnum /\ \A i \in 1..Len(EnumLabels) : EnumLabels[i] # v.s)
                => last'.exc = "InvalidEnumError" /\ scene' = scene
        /\ (~v.isnum /\ v.s = LabelOf(scene, obj)) => scene' = scene

EnumRead ==
    /\ last'.exc = "none"
    /\ last'.ret = <<Plain("unicode", LabelOf(scene, last'.obj))>>

\* C9: assigning to an enum attribute sets int(v) for a number, the
\* position of v for a label of the list, and raises InvalidEnumError
\* otherwise; reading gives the current label; writing it back changes nothing.
C9_EnumAssignAndRead ==
    [][/\ (last.op = "idle" /\ last'.op = "setattr"
            /\ EnumAttr(scene, last'.obj, last'.name)) => EnumAssigned
       /\ (last.op = "idle" /\ last'.op = "getattr"
            /\ EnumAttr(scene, last'.obj, last'.name)) => EnumRead]_vars

\* C10: add_attribute(name) on a node without the attribute adds it under the
\* long name 'name' and returns, after which node.name can be read;
\* delete_attribute(name) removes an attribute the node has.
C10_AddAndDeleteAttribute ==
    [][/\ (last.op = "idle" /\ last'.op = "add_attribute"
            /\ last'.obj \in Objs /\ scene[last'.obj] = NoAttr)
              => /\ last'.exc = "none"
                 /\ scene'[last'.obj].ln = last'.name
                 /\ py_getattr(last'.cls, last'.obj, last'.name, LOOKUPS', scene').exc = "none"
       /\ (last.op = "idle" /\ last'.op = "delete_attribute"
            /\ HasAttr(scene, last'.obj, last'.name))
              => ~HasAttr(scene', last'.obj, last'.name)]_vars

\* C11: a property of TransformNodule is assigned on a JointNodule of the same
\* host node with the same result (the same host call, ReadOnlyPropertyError
\* for world_scale), as reading it resolves to the inherited descriptor.
C11_JointAssignsAsTransform ==
    /\ (last.op = "setattr" /\ last.cls = "JointNodule"
            /\ ClassLookup("TransformNodule", last.name) # NoDesc)
          => LET t == py_setattr("TransformNodule", last.obj, last.name, last.val,
                                 LOOKUPS, scene)
             IN  last.exc = t.exc /\ last.calls = t.calls
    /\ (last.op = "getattr" /\ last.cls = "JointNodule"
            /\ ClassLookup("TransformNodule", last.name) # NoDesc)
          => last.desc = ClassLookup("TransformNodule", last.name)

====
